---- MODULE Spec2Model ----
(***************************************************************************)
(* State-machine model of the canteen storefront (src/js/app.ts): the      *)
(* cart ledger, the identity store, the order ledger with its admin panel, *)
(* the custom confirmation modal and the two-tier dish catalog, together   *)
(* with the browser's localStorage.                                        *)
(*                                                                         *)
(* Conventions.  A JS value that may be null/undefined is a sequence of    *)
(* length 0 or 1 (None, Some(v)); a missing optional string field is the   *)
(* string Undefined.  Arrays are sequences (1-based); findIndex returns 0  *)
(* where the code returns -1.                                              *)
(***************************************************************************)
EXTENDS Integers, Sequences, FiniteSets, TLC

VARIABLES
    now,              \* the value Date.now() returns at the next checkout
    localStorage,     \* the browser profile's key-value store
    cartItems,        \* CartManager.items
    currentUser,      \* UserManager.currentUser
    users,            \* UserManager.users
    orders,           \* UserManager.orders (in memory)
    menuItems,        \* MenuManager.items (entries carry object identity)
    allDishes,        \* MenuManager.allDishes
    activeModalId,    \* CustomModalManager.activeModalId
    currentCallback,  \* CustomModalManager.currentCallback
    adminOrdersList,  \* the DOM under #admin-orders-list
    activeFilter,     \* data-status of .filter-order-btn.active
    adminBtnShown,    \* #admin-orders-btn is displayed
    timers,           \* pending setTimeout callbacks and awaits, per kind
    issuedIds,        \* history: ids handed out by addMenuItem
    lastCall,         \* history: the operation that ran last, with its input
    ret               \* history: what that operation returned

vars == <<now, localStorage, cartItems, currentUser, users, orders, menuItems,
          allDishes, activeModalId, currentCallback, adminOrdersList,
          activeFilter, adminBtnShown, timers, issuedIds, lastCall, ret>>

(***************************************************************************)
(* Bounds of the model.                                                    *)
(***************************************************************************)
MaxClock == 2        \* checkouts per run (each reads a later Date.now())
MaxQty == 2          \* largest quantity of one cart line
MaxTimers == 1       \* pending setTimeout callbacks of one kind
MaxApiOrders == 2    \* orders held when the ledger is driven directly
MaxAdds == 3         \* addMenuItem calls per run

(***************************************************************************)
(* JS values.                                                              *)
(***************************************************************************)
None == <<>>
Some(v) == <<v>>
Undefined == "undefined"
Truthy(s) == s \notin {Undefined, ""}
NoModal == "null"

OrderStatus == {"pending", "preparing", "ready", "completed", "cancelled"}

Min(S) == CHOOSE x \in S : \A y \in S : x <= y
Max(S) == CHOOSE x \in S : \A y \in S : x >= y

\* findIndex: the first position whose element satisfies the predicate, 0 if none
findIndex(array, P(_)) ==
    LET hits == {i \in 1..Len(array) : P(array[i])}
    IN  IF hits = {} THEN 0 ELSE Min(hits)

\* findItem: the first element that satisfies the predicate, or undefined
findItem(array, P(_)) ==
    LET i == findIndex(array, P)
    IN  IF i = 0 THEN None ELSE Some(array[i])

SeqMap(f(_), s) == [i \in 1..Len(s) |-> f(s[i])]

RECURSIVE SeqSum(_)
SeqSum(s) == IF s = <<>> THEN 0 ELSE Head(s) + SeqSum(Tail(s))

\* splice(index, 1)
Splice(s, i) == SubSeq(s, 1, i - 1) \o SubSeq(s, i + 1, Len(s))

(***************************************************************************)
(* localStorage.  A key holds the JSON text of a value, or nothing.        *)
(* JSON.stringify followed by JSON.parse yields a fresh copy of the value: *)
(* the values stored here are finite numbers, strings, booleans and arrays *)
(* of objects of these, and an absent optional field stays absent.         *)
(***************************************************************************)
NoItem == <<>>
JsonStringify(v) == <<"json", v>>
JsonParse(text) == text[2]

EmptyStorage ==
    [cart |-> NoItem, currentUser |-> NoItem, users |-> NoItem,
     orders |-> NoItem, menuItems |-> NoItem, allDishes |-> NoItem]

setItem(ls, key, v) == [ls EXCEPT ![key] = JsonStringify(v)]
removeItem(ls, key) == [ls EXCEPT ![key] = NoItem]

(***************************************************************************)
(* Identity store.                                                         *)
(***************************************************************************)
adminUser == [id |-> 1, email |-> "admin@sibsiu.ru", isAdmin |-> TRUE]
testStudent == [id |-> 2, email |-> "student@sibsiu.ru", isAdmin |-> FALSE]

initializeUsers == <<adminUser, testStudent>>

loadCurrentUser(ls) ==
    IF ls.currentUser # NoItem THEN Some(JsonParse(ls.currentUser)) ELSE None

\* the part of updateUserDisplay that decides whether #admin-orders-btn shows
updateUserDisplay(user, shown) ==
    IF user # None
    THEN IF user[1].isAdmin THEN TRUE ELSE shown
    ELSE FALSE

(***************************************************************************)
(* Cart ledger.                                                            *)
(***************************************************************************)
CartLine(item, q) ==
    [id |-> item.id, name |-> item.name, price |-> item.price,
     category |-> item.category, isNew |-> item.isNew,
     isActive |-> item.isActive, quantity |-> q]

\* mutant: a line is pushed without looking for the dish in the cart
addItem_AlwaysPushes(items, item) == Append(items, CartLine(item, 1))

addItem(items, item) ==
    LET i == findIndex(items, LAMBDA c : c.id = item.id)
    IN  IF i # 0
        THEN [items EXCEPT ![i].quantity = @ + 1]
        ELSE Append(items, CartLine(item, 1))

\* CartManager.removeItem
removeCartItem(items, itemId) == SelectSeq(items, LAMBDA item : item.id # itemId)

\* mutant: a positive quantity is added to the line's quantity
updateQuantity_Increments(items, itemId, quantity) ==
    LET i == findIndex(items, LAMBDA c : c.id = itemId)
    IN  IF i # 0
        THEN [items |-> IF quantity <= 0
                        THEN removeCartItem(items, itemId)
                        ELSE [items EXCEPT ![i].quantity = @ + quantity],
              saved |-> TRUE]
        ELSE [items |-> items, saved |-> FALSE]

\* the new cart and whether it was saved
updateQuantity(items, itemId, quantity) ==
    LET i == findIndex(items, LAMBDA c : c.id = itemId)
    IN  IF i # 0
        THEN [items |-> IF quantity <= 0
                        THEN removeCartItem(items, itemId)
                        ELSE [items EXCEPT ![i].quantity = quantity],
              saved |-> TRUE]
        ELSE [items |-> items, saved |-> FALSE]

clear == <<>>

LinePrice(line) == line.price * line.quantity

\* mutant: the sum forgets the quantities
getTotal_IgnoresQuantity(items) == SeqSum(SeqMap(LAMBDA line : line.price, items))

\* mutant: the reducer adds the quantity where it should multiply by it
getTotal_AddsQuantity(items) ==
    SeqSum(SeqMap(LAMBDA line : line.price + line.quantity, items))

getTotal(items) == SeqSum(SeqMap(LinePrice, items))

loadFromStorage(ls) ==
    IF ls.cart # NoItem THEN JsonParse(ls.cart) ELSE <<>>

(***************************************************************************)
(* Order ledger.                                                           *)
(***************************************************************************)
getAllOrders(ls) ==
    IF ls.orders # NoItem THEN JsonParse(ls.orders) ELSE <<>>

\* mutant: the result no longer depends on the order having been found
updateOrderStatus_AlwaysTrue(ls, orderId, newStatus, estimatedTime) ==
    LET all == getAllOrders(ls)
        orderIndex == findIndex(all, LAMBDA o : o.id = orderId)
    IN  IF orderIndex # 0
        THEN [ls |-> setItem(ls, "orders",
                       [all EXCEPT ![orderIndex].status = newStatus,
                                   ![orderIndex].estimatedTime =
                                       IF Truthy(estimatedTime)
                                       THEN estimatedTime ELSE @]),
              ret |-> TRUE]
        ELSE [ls |-> setItem(ls, "orders", all), ret |-> TRUE]

\* mutant: estimatedTime is assigned without the test that it was given
updateOrderStatus_AlwaysStamps(ls, orderId, newStatus, estimatedTime) ==
    LET all == getAllOrders(ls)
        orderIndex == findIndex(all, LAMBDA o : o.id = orderId)
    IN  IF orderIndex # 0
        THEN [ls |-> setItem(ls, "orders",
                       [all EXCEPT ![orderIndex].status = newStatus,
                                   ![orderIndex].estimatedTime = estimatedTime]),
              ret |-> TRUE]
        ELSE [ls |-> ls, ret |-> FALSE]

\* the new storage and the value returned
updateOrderStatus(ls, orderId, newStatus, estimatedTime) ==
    LET all == getAllOrders(ls)
        orderIndex == findIndex(all, LAMBDA o : o.id = orderId)
    IN  IF orderIndex # 0
        THEN [ls |-> setItem(ls, "orders",
                       [all EXCEPT ![orderIndex].status = newStatus,
                                   ![orderIndex].estimatedTime =
                                       IF Truthy(estimatedTime)
                                       THEN estimatedTime ELSE @]),
              ret |-> TRUE]
        ELSE [ls |-> ls, ret |-> FALSE]

\* addOrder: the in-memory list and the storage written from it
addOrder(mem, ls, order) ==
    LET pushed == Append(mem, order)
    IN  [orders |-> pushed, ls |-> setItem(ls, "orders", pushed)]

(***************************************************************************)
(* Admin order panel: what renderAdminOrders puts into the DOM.  The list  *)
(* is kept as the set of rendered entries: a click carries only the        *)
(* button's data-order and data-action, so the order in which              *)
(* loadAdminOrders sorts the entries is not observable by any handler.     *)
(***************************************************************************)
\* mutant: the cancel button is also offered for a ready order
renderStatusButtons_CancelWhenReady(currentStatus) ==
    (IF currentStatus = "pending" THEN {"preparing", "cancelled"} ELSE {})
    \cup (IF currentStatus = "preparing" THEN {"ready", "cancelled"} ELSE {})
    \cup (IF currentStatus = "ready" THEN {"completed", "cancelled"} ELSE {})
    \cup (IF currentStatus \notin {"completed", "cancelled"}
          THEN {"set_time"} ELSE {})

renderStatusButtons(currentStatus) ==
    (IF currentStatus = "pending" THEN {"preparing", "cancelled"} ELSE {})
    \cup (IF currentStatus = "preparing" THEN {"ready", "cancelled"} ELSE {})
    \cup (IF currentStatus = "ready" THEN {"completed"} ELSE {})
    \cup (IF currentStatus \notin {"completed", "cancelled"}
          THEN {"set_time"} ELSE {})

RenderEntry(order) ==
    [id |-> order.id, status |-> order.status,
     buttons |-> renderStatusButtons(order.status)]

loadAdminOrders(ls, filterStatus) ==
    LET all == getAllOrders(ls)
    IN  {RenderEntry(all[i]) : i \in {j \in 1..Len(all) :
            filterStatus = "all" \/ all[j].status = filterStatus}}

(***************************************************************************)
(* Custom modal.  A callback is the closure passed to showModal: its kind, *)
(* the handler that created it and the order id it captured.  renderedAs   *)
(* is history: the status the clicked order was rendered with.             *)
(***************************************************************************)
NoCallback == [kind |-> "none", src |-> "", orderId |-> 0, renderedAs |-> ""]

Callback(kind, src, orderId, renderedAs) ==
    [kind |-> kind, src |-> src, orderId |-> orderId, renderedAs |-> renderedAs]

\* showModal on the page state w = [ls, list, modalId, cb]: closeActiveModal
\* forgets whatever callback was waiting, then the new one is installed
showModal(w, modalId, callback) ==
    [w EXCEPT !.modalId = modalId, !.cb = callback]

\* what a user can answer in the modal that is open
validateTimeFormat(time) == time \in {"12:30", "14:30"}

TimeInputs == {"14:30", "25:00"}

ModalResults(modalId) ==
    IF modalId = "set-time-modal"
    THEN {"false"} \cup {t \in TimeInputs : validateTimeFormat(t)}
    ELSE {"true", "false"}

(***************************************************************************)
(* The two listeners of a .status-btn click: the per-button listener       *)
(* installed by setupOrderActionHandlers runs first, then the document     *)
(* level listener of setupEventHandlers.                                   *)
(***************************************************************************)
handleOrderAction(w, orderId, action, filter, renderedAs) ==
    IF action \in {"preparing", "ready", "completed"}
    THEN LET u == updateOrderStatus(w.ls, orderId, action, Undefined)
         IN  [w EXCEPT !.ls = u.ls, !.list = loadAdminOrders(u.ls, filter)]
    ELSE IF action = "cancelled"
    THEN showModal(w, "cancel-order-modal",
                   Callback("cancelOrder", "handleOrderAction", orderId, renderedAs))
    ELSE IF action = "set_time"
    THEN showModal(w, "set-time-modal",
                   Callback("setTime", "handleOrderAction", orderId, renderedAs))
    ELSE [w EXCEPT !.list = loadAdminOrders(w.ls, filter)]

delegatedStatusBtn(w, orderId, action, renderedAs) ==
    IF action \in {"preparing", "ready", "completed"}
    THEN [w EXCEPT !.ls = updateOrderStatus(w.ls, orderId, action, Undefined).ls]
    ELSE IF action = "cancelled"
    THEN showModal(w, "cancel-order-modal",
                   Callback("cancelOrder", "delegated", orderId, renderedAs))
    ELSE IF action = "set_time"
    THEN showModal(w, "set-time-modal",
                   Callback("setTime", "delegated", orderId, renderedAs))
    ELSE w

\* the body of a callback, run by closeModal(result)
runCallback(w, callback, result, filter) ==
    LET refresh(v) == IF callback.src = "handleOrderAction"
                      THEN [v EXCEPT !.list = loadAdminOrders(v.ls, filter)]
                      ELSE v
    IN  IF callback.kind = "cancelOrder" /\ result # "false"
        THEN refresh([w EXCEPT !.ls =
                 updateOrderStatus(w.ls, callback.orderId, "cancelled", Undefined).ls])
        ELSE IF callback.kind = "setTime" /\ result # "false"
        THEN refresh([w EXCEPT !.ls =
                 updateOrderStatus(w.ls, callback.orderId, "preparing", result).ls])
        ELSE w

(***************************************************************************)
(* Dishes.  An entry of MenuManager.items is the dish's fields plus        *)
(* `shared`: the entry is the very object that allDishes holds under the   *)
(* same id (addMenuItem pushes one object onto both arrays).               *)
(***************************************************************************)
Dish(e) ==
    [id |-> e.id, name |-> e.name, price |-> e.price, category |-> e.category,
     isNew |-> e.isNew, isActive |-> e.isActive]

Entry(d, shared) ==
    [id |-> d.id, name |-> d.name, price |-> d.price, category |-> d.category,
     isNew |-> d.isNew, isActive |-> d.isActive, shared |-> shared]

Loaded(d) == Entry(d, FALSE)

\* the menu the remote collaborator serves on GET /menu
RemoteMenu ==
    << [id |-> 1, name |-> "soup", price |-> 100, category |-> "first",
        isNew |-> FALSE, isActive |-> TRUE],
       [id |-> 2, name |-> "cutlet", price |-> 150, category |-> "second",
        isNew |-> TRUE, isActive |-> TRUE] >>

(***************************************************************************)
(* History of the last direct call of a store operation.                   *)
(***************************************************************************)
Call(op, id, s, t) == [op |-> op, id |-> id, s |-> s, t |-> t]

\* menuFetch counts the loadMenu calls that wait for the remote's answer
NoTimers == [refreshOrders |-> 0, loginSuccess |-> 0, logoutSuccess |-> 0,
             menuFetch |-> 0]

setTimeout(ts, kind) == [ts EXCEPT ![kind] = @ + 1]

(***************************************************************************)
(* The state after initializeApp on a fresh browser profile, once the      *)
(* loadMenu started by the MenuManager constructor has stored RemoteMenu.  *)
(***************************************************************************)
Init ==
    /\ now = 1
    /\ localStorage = setItem(setItem(EmptyStorage, "users", initializeUsers),
                              "menuItems", RemoteMenu)
    /\ cartItems = <<>>
    /\ currentUser = None
    /\ users = initializeUsers
    /\ orders = <<>>
    /\ menuItems = SeqMap(Loaded, RemoteMenu)
    /\ allDishes = <<>>
    /\ activeModalId = NoModal
    /\ currentCallback = NoCallback
    /\ adminOrdersList = {}
    /\ activeFilter = "all"
    /\ adminBtnShown = FALSE
    /\ timers = NoTimers
    /\ issuedIds = <<>>
    /\ lastCall = Call("init", 0, "", "")
    /\ ret = "void"

menuVars == <<menuItems, allDishes, issuedIds>>
userVars == <<currentUser, users, adminBtnShown>>
modalVars == <<activeModalId, currentCallback>>
panelVars == <<adminOrdersList, activeFilter>>
callVars == <<lastCall, ret>>

\* the page takes clicks only while no custom modal overlay covers it
PageOpen == activeModalId = NoModal

(***************************************************************************)
(* Click on a dish's add-to-cart button: the listener installed by         *)
(* setupAddToCartHandlers looks the dish up in items, the document level   *)
(* listener looks it up in allDishes; each calls addItem on what it finds. *)
(* maxQty bounds the quantity a run lets one line reach.                   *)
(***************************************************************************)
AddToCartClick(itemId, maxQty) ==
    LET first == findItem(menuItems, LAMBDA i : i.id = itemId)
        afterFirst == IF first # None THEN addItem(cartItems, first[1])
                      ELSE cartItems
        second == findItem(allDishes, LAMBDA i : i.id = itemId)
        afterSecond == IF second # None THEN addItem(afterFirst, second[1])
                       ELSE afterFirst
    IN  /\ PageOpen
        /\ \E i \in 1..Len(menuItems) : menuItems[i].id = itemId
        /\ \A i \in 1..Len(afterSecond) : afterSecond[i].quantity <= maxQty
        /\ cartItems' = afterSecond
        /\ localStorage' = setItem(localStorage, "cart", afterSecond)
        /\ UNCHANGED <<now, orders, menuVars, userVars, modalVars, panelVars,
                       timers, callVars>>

(***************************************************************************)
(* Login form submit and logout button.                                    *)
(***************************************************************************)
\* mutant: the password is not compared
login_AnyPassword(email, password) ==
    LET user == findItem(users, LAMBDA u : u.email = email)
    IN  IF user # None
        THEN [currentUser |-> user,
              ls |-> setItem(localStorage, "currentUser", user[1]),
              shown |-> updateUserDisplay(user, adminBtnShown),
              ret |-> TRUE]
        ELSE [currentUser |-> currentUser, ls |-> localStorage,
              shown |-> adminBtnShown, ret |-> FALSE]

login(email, password) ==
    LET user == findItem(users, LAMBDA u : u.email = email)
    IN  IF user # None /\ password = "password"
        THEN [currentUser |-> user,
              ls |-> setItem(localStorage, "currentUser", user[1]),
              shown |-> updateUserDisplay(user, adminBtnShown),
              ret |-> TRUE]
        ELSE [currentUser |-> currentUser, ls |-> localStorage,
              shown |-> adminBtnShown, ret |-> FALSE]

\* mutant: the persisted session is left in place
logout_KeepsStorage ==
    [currentUser |-> None, ls |-> localStorage,
     shown |-> updateUserDisplay(None, adminBtnShown)]

logout ==
    [currentUser |-> None, ls |-> removeItem(localStorage, "currentUser"),
     shown |-> updateUserDisplay(None, adminBtnShown)]

LoginSubmit(email, password) ==
    LET r == login(email, password)
    IN  /\ PageOpen
        /\ timers.loginSuccess < MaxTimers
        /\ currentUser' = r.currentUser
        /\ localStorage' = r.ls
        /\ adminBtnShown' = r.shown
        /\ timers' = IF r.ret THEN setTimeout(timers, "loginSuccess") ELSE timers
        /\ UNCHANGED <<now, cartItems, users, orders, menuVars, modalVars,
                       panelVars, callVars>>

LogoutClick ==
    /\ PageOpen
    /\ timers.logoutSuccess < MaxTimers
    /\ currentUser' = logout.currentUser
    /\ localStorage' = logout.ls
    /\ adminBtnShown' = logout.shown
    /\ timers' = setTimeout(timers, "logoutSuccess")
    /\ UNCHANGED <<now, cartItems, users, orders, menuVars, modalVars,
                   panelVars, callVars>>

(***************************************************************************)
(* Checkout: processOrder with the value of the #order-time select.  Each  *)
(* order takes Date.now() as its id; a later checkout reads a later clock. *)
(***************************************************************************)
NewOrder(user, items, selectedTime, clock) ==
    [id |-> clock, userId |-> user.id, items |-> items,
     total |-> getTotal(items), orderNumber |-> clock % 1000000,
     date |-> clock \div 1000, status |-> "pending",
     estimatedTime |-> selectedTime]

\* mutant: the order is recorded without a pickup time having been chosen
ProcessOrder_NoTimeCheck(selectedTime) ==
    /\ PageOpen
    /\ IF currentUser = None
       THEN /\ activeModalId' = "login-required-modal"
            /\ currentCallback' = Callback("loginRequired", "processOrder", 0, "")
            /\ UNCHANGED <<now, localStorage, cartItems, orders>>
       ELSE IF Len(cartItems) = 0
       THEN /\ activeModalId' = "empty-cart-modal"
            /\ currentCallback' = Callback("emptyCart", "processOrder", 0, "")
            /\ UNCHANGED <<now, localStorage, cartItems, orders>>
       ELSE LET added == addOrder(orders, localStorage,
                             NewOrder(currentUser[1], cartItems, selectedTime, now))
            IN  /\ now <= MaxClock
                /\ orders' = added.orders
                /\ cartItems' = <<>>
                /\ localStorage' = setItem(added.ls, "cart", <<>>)
                /\ now' = now + 1
                /\ UNCHANGED modalVars
    /\ UNCHANGED <<menuVars, userVars, panelVars, timers, callVars>>

ProcessOrder(selectedTime) ==
    /\ PageOpen
    /\ IF currentUser = None
       THEN /\ activeModalId' = "login-required-modal"
            /\ currentCallback' = Callback("loginRequired", "processOrder", 0, "")
            /\ UNCHANGED <<now, localStorage, cartItems, orders>>
       ELSE IF Len(cartItems) = 0
       THEN /\ activeModalId' = "empty-cart-modal"
            /\ currentCallback' = Callback("emptyCart", "processOrder", 0, "")
            /\ UNCHANGED <<now, localStorage, cartItems, orders>>
       ELSE IF ~Truthy(selectedTime)
       THEN UNCHANGED <<now, localStorage, cartItems, orders, modalVars>>
       ELSE LET added == addOrder(orders, localStorage,
                             NewOrder(currentUser[1], cartItems, selectedTime, now))
            IN  /\ now <= MaxClock
                /\ orders' = added.orders
                /\ cartItems' = <<>>
                /\ localStorage' = setItem(added.ls, "cart", <<>>)
                /\ now' = now + 1
                /\ UNCHANGED modalVars
    /\ UNCHANGED <<menuVars, userVars, panelVars, timers, callVars>>

(***************************************************************************)
(* Admin order panel.                                                      *)
(***************************************************************************)
OpenAdminOrders ==
    /\ PageOpen
    /\ adminBtnShown
    /\ adminOrdersList' = loadAdminOrders(localStorage, "all")
    /\ UNCHANGED <<now, localStorage, cartItems, orders, menuVars, userVars,
                   modalVars, activeFilter, timers, callVars>>

FilterOrdersClick(status) ==
    /\ PageOpen
    /\ adminBtnShown
    /\ activeFilter' = status
    /\ adminOrdersList' = loadAdminOrders(localStorage, status)
    /\ UNCHANGED <<now, localStorage, cartItems, orders, menuVars, userVars,
                   modalVars, timers, callVars>>

StatusBtnClick(entry, action) ==
    LET w0 == [ls |-> localStorage, list |-> adminOrdersList,
               modalId |-> activeModalId, cb |-> currentCallback]
        w1 == handleOrderAction(w0, entry.id, action, activeFilter, entry.status)
        w2 == delegatedStatusBtn(w1, entry.id, action, entry.status)
    IN  /\ PageOpen
        /\ entry \in adminOrdersList
        /\ action \in entry.buttons
        /\ timers.refreshOrders < MaxTimers
        /\ localStorage' = w2.ls
        /\ adminOrdersList' = w2.list
        /\ activeModalId' = w2.modalId
        /\ currentCallback' = w2.cb
        /\ timers' = setTimeout(timers, "refreshOrders")
        /\ UNCHANGED <<now, cartItems, orders, menuVars, userVars, activeFilter,
                       callVars>>

\* a button of the open modal, its form or its overlay: closeModal(result)
CloseModal(result) ==
    LET w0 == [ls |-> localStorage, list |-> adminOrdersList,
               modalId |-> activeModalId, cb |-> currentCallback]
        w1 == runCallback(w0, currentCallback, result, activeFilter)
    IN  /\ activeModalId # NoModal
        /\ result \in ModalResults(activeModalId)
        /\ localStorage' = w1.ls
        /\ adminOrdersList' = w1.list
        /\ activeModalId' = NoModal
        /\ currentCallback' = NoCallback
        /\ UNCHANGED <<now, cartItems, orders, menuVars, userVars, activeFilter,
                       timers, callVars>>

(***************************************************************************)
(* setTimeout callbacks.                                                   *)
(***************************************************************************)
RefreshOrdersTimer ==
    /\ timers.refreshOrders > 0
    /\ timers' = [timers EXCEPT !.refreshOrders = @ - 1]
    /\ adminOrdersList' = loadAdminOrders(localStorage, activeFilter)
    /\ UNCHANGED <<now, localStorage, cartItems, orders, menuVars, userVars,
                   modalVars, activeFilter, callVars>>

SuccessModalTimer(kind) ==
    /\ timers[kind] > 0
    /\ timers' = [timers EXCEPT ![kind] = @ - 1]
    /\ activeModalId' = IF kind = "loginSuccess" THEN "login-success-modal"
                        ELSE "logout-success-modal"
    /\ currentCallback' = Callback(kind, "setupEventHandlers", 0, "")
    /\ UNCHANGED <<now, localStorage, cartItems, orders, menuVars, userVars,
                   panelVars, callVars>>

(***************************************************************************)
(* Page reload: every manager is constructed again over the same storage;  *)
(* the DOM, the pending timers and the open modal are gone.  The remote    *)
(* collaborator serves RemoteMenu again.                                   *)
(***************************************************************************)
Reload ==
    /\ cartItems' = loadFromStorage(localStorage)
    /\ users' = initializeUsers
    /\ currentUser' = loadCurrentUser(localStorage)
    /\ orders' = <<>>
    /\ adminBtnShown' = updateUserDisplay(loadCurrentUser(localStorage), FALSE)
    /\ localStorage' = setItem(setItem(localStorage, "users", initializeUsers),
                               "menuItems", RemoteMenu)
    /\ menuItems' = SeqMap(Loaded, RemoteMenu)
    /\ allDishes' = <<>>
    /\ activeModalId' = NoModal
    /\ currentCallback' = NoCallback
    /\ adminOrdersList' = {}
    /\ activeFilter' = "all"
    /\ timers' = NoTimers
    /\ UNCHANGED <<now, issuedIds, callVars>>

Emails == {"student@sibsiu.ru", "nobody@sibsiu.ru"}
Passwords == {"password", "wrong"}
OrderTimes == {"", "12:30"}
FilterChoices == {"all", "ready"}
StatusActions == {"preparing", "ready", "completed", "cancelled", "set_time"}

(***************************************************************************)
(* Spec: the order lifecycle as the administrator drives it from one       *)
(* browser: sign in, put the first dish into the cart, check out, work the *)
(* admin order panel, reload.                                              *)
(***************************************************************************)
Next ==
    \/ AddToCartClick(1, 1)
    \/ \E p \in Passwords : LoginSubmit("admin@sibsiu.ru", p)
    \/ \E t \in OrderTimes : ProcessOrder(t)
    \/ OpenAdminOrders
    \/ \E s \in FilterChoices : FilterOrdersClick(s)
    \/ \E e \in adminOrdersList, a \in StatusActions : StatusBtnClick(e, a)
    \/ \E r \in {"true", "false"} \cup TimeInputs : CloseModal(r)
    \/ RefreshOrdersTimer
    \/ SuccessModalTimer("loginSuccess")
    \/ Reload

Spec == Init /\ [][Next]_vars

(***************************************************************************)
(* SpecCheckout: shoppers fill the cart, sign in and out, and check out.   *)
(***************************************************************************)
NextCheckout ==
    \/ AddToCartClick(1, MaxQty)
    \/ AddToCartClick(2, 1)
    \/ \E e \in Emails, p \in Passwords : LoginSubmit(e, p)
    \/ LogoutClick
    \/ \E t \in OrderTimes : ProcessOrder(t)
    \/ \E r \in {"true", "false"} : CloseModal(r)
    \/ \E k \in {"loginSuccess", "logoutSuccess"} : SuccessModalTimer(k)
    \/ Reload

SpecCheckout == Init /\ [][NextCheckout]_vars

(***************************************************************************)
(* SpecApi: the order ledger driven directly through UserManager's         *)
(* methods, with any argument values, across reloads.                      *)
(***************************************************************************)
SoupLine == CartLine(RemoteMenu[1], 1)

ApiOrder(id, estimatedTime) ==
    [id |-> id, userId |-> 2, items |-> <<SoupLine>>, total |-> getTotal(<<SoupLine>>),
     orderNumber |-> id % 1000000, date |-> id \div 1000, status |-> "pending",
     estimatedTime |-> estimatedTime]

ApiIds == 1..3
ApiStatuses == {"pending", "ready", "cancelled"}
ApiTimes == {Undefined, "", "14:30"}

CallAddOrder(id, estimatedTime) ==
    LET added == addOrder(orders, localStorage, ApiOrder(id, estimatedTime))
    IN  /\ Len(orders) < MaxApiOrders
        /\ orders' = added.orders
        /\ localStorage' = added.ls
        /\ lastCall' = Call("addOrder", id, "pending", estimatedTime)
        /\ ret' = "void"
        /\ UNCHANGED <<now, cartItems, menuVars, userVars, modalVars, panelVars, timers>>

CallUpdateOrderStatus(orderId, newStatus, estimatedTime) ==
    LET u == updateOrderStatus(localStorage, orderId, newStatus, estimatedTime)
    IN  /\ localStorage' = u.ls
        /\ lastCall' = Call("updateOrderStatus", orderId, newStatus, estimatedTime)
        /\ ret' = IF u.ret THEN "true" ELSE "false"
        /\ UNCHANGED <<now, cartItems, orders, menuVars, userVars, modalVars,
                       panelVars, timers>>

NextApi ==
    \/ \E id \in 1..2, t \in {Undefined, "12:30"} : CallAddOrder(id, t)
    \/ \E id \in ApiIds, st \in ApiStatuses, t \in ApiTimes :
          CallUpdateOrderStatus(id, st, t)
    \/ Reload

SpecApi == Init /\ [][NextApi]_vars

(***************************************************************************)
(* MenuManager's catalog operations.  m is the manager's state: the active *)
(* list (items), the archive (all) and storage (ls).  addMenuItem pushes   *)
(* one object onto both lists: an active entry is `shared` while it is the *)
(* very object the archive holds under its id.                             *)
(***************************************************************************)
saveMenuToStorage(ls, items) == setItem(ls, "menuItems", SeqMap(Dish, items))

saveAllDishesToStorage(ls, all) == setItem(ls, "allDishes", all)

isDishActive(items, dishId) == \E i \in 1..Len(items) : items[i].id = dishId

\* mutant: the next id is taken from the size of the archive
generateId_CountsArchive(all) == Len(all) + 1

generateId(all) == Max({all[k].id : k \in 1..Len(all)} \cup {0}) + 1

\* the active entries of an id no longer alias the archive once its archive
\* object is replaced or removed
Unshare(items, id) ==
    [i \in 1..Len(items) |->
        IF items[i].id = id THEN [items[i] EXCEPT !.shared = FALSE] ELSE items[i]]

addMenuItem(m, item) ==
    LET newItem == [id |-> generateId(m.all), name |-> item.name,
                    price |-> item.price, category |-> item.category,
                    isNew |-> item.isNew, isActive |-> TRUE]
        items == Append(m.items, Entry(newItem, TRUE))
        all == Append(m.all, newItem)
    IN  [items |-> items, all |-> all,
         ls |-> saveAllDishesToStorage(saveMenuToStorage(m.ls, items), all)]

Updated(e, updates) ==
    [e EXCEPT !.name = updates.name, !.price = updates.price,
              !.category = updates.category, !.isNew = updates.isNew]

\* mutant: the archive entry is not merged
updateMenuItem_ActiveOnly(m, itemId, updates) ==
    LET itemIndex == findIndex(m.items, LAMBDA i : i.id = itemId)
        items == IF itemIndex # 0
                 THEN [m.items EXCEPT ![itemIndex] =
                           [Updated(@, updates) EXCEPT !.shared = FALSE]]
                 ELSE m.items
    IN  [items |-> items, all |-> m.all,
         ls |-> saveAllDishesToStorage(saveMenuToStorage(m.ls, items), m.all)]

updateMenuItem(m, itemId, updates) ==
    LET itemIndex == findIndex(m.items, LAMBDA i : i.id = itemId)
        allDishIndex == findIndex(m.all, LAMBDA d : d.id = itemId)
        replaced == IF itemIndex # 0
                    THEN [m.items EXCEPT ![itemIndex] =
                              [Updated(@, updates) EXCEPT !.shared = FALSE]]
                    ELSE m.items
        items == IF allDishIndex # 0 THEN Unshare(replaced, itemId) ELSE replaced
        all == IF allDishIndex # 0
               THEN [m.all EXCEPT ![allDishIndex] = Updated(@, updates)]
               ELSE m.all
    IN  [items |-> items, all |-> all,
         ls |-> saveAllDishesToStorage(saveMenuToStorage(m.ls, items), all)]

\* mutant: the dish is copied without the test that it is not active already
addExistingDish_NoActiveCheck(m, dishId) ==
    LET dish == findItem(m.all, LAMBDA d : d.id = dishId)
    IN  IF dish # None
        THEN LET items == Append(m.items,
                                 Entry([dish[1] EXCEPT !.isActive = TRUE], FALSE))
             IN  [items |-> items, all |-> m.all,
                  ls |-> saveMenuToStorage(m.ls, items)]
        ELSE m

addExistingDish(m, dishId) ==
    LET dish == findItem(m.all, LAMBDA d : d.id = dishId)
    IN  IF dish # None /\ ~isDishActive(m.items, dishId)
        THEN LET items == Append(m.items,
                                 Entry([dish[1] EXCEPT !.isActive = TRUE], FALSE))
             IN  [items |-> items, all |-> m.all,
                  ls |-> saveMenuToStorage(m.ls, items)]
        ELSE m

removeMenuItem(m, itemId) ==
    LET itemIndex == findIndex(m.items, LAMBDA i : i.id = itemId)
        allDishIndex == findIndex(m.all, LAMBDA d : d.id = itemId)
    IN  IF itemIndex # 0
        THEN LET items == Splice(m.items, itemIndex)
                 all == IF m.items[itemIndex].shared
                        THEN [m.all EXCEPT ![allDishIndex].isActive = FALSE]
                        ELSE m.all
             IN  [items |-> items, all |-> all,
                  ls |-> saveMenuToStorage(m.ls, items)]
        ELSE m

deletePermanent(m, itemId) ==
    LET allDishIndex == findIndex(m.all, LAMBDA d : d.id = itemId)
        all == IF allDishIndex # 0 THEN Splice(m.all, allDishIndex) ELSE m.all
        menuIndex == findIndex(m.items, LAMBDA i : i.id = itemId)
        spliced == IF menuIndex # 0 THEN Splice(m.items, menuIndex) ELSE m.items
        items == IF allDishIndex # 0 THEN Unshare(spliced, itemId) ELSE spliced
    IN  [items |-> items, all |-> all,
         ls |-> saveAllDishesToStorage(saveMenuToStorage(m.ls, items), all)]

getInactiveDishes(m) ==
    LET activeIds == {m.items[k].id : k \in 1..Len(m.items)}
    IN  SelectSeq(m.all, LAMBDA dish : dish.id \notin activeIds)

(***************************************************************************)
(* SpecMenu: the catalog driven directly through MenuManager's methods.    *)
(***************************************************************************)
Manager == [items |-> menuItems, all |-> allDishes, ls |-> localStorage]

Drafts == {[name |-> "tea", price |-> 50, category |-> "drinks", isNew |-> TRUE]}

Updates == {[name |-> "borscht", price |-> 120, category |-> "first",
             isNew |-> FALSE]}

DishIds == 1..3

CatalogCall(m, op, id) ==
    /\ menuItems' = m.items
    /\ allDishes' = m.all
    /\ localStorage' = m.ls
    /\ lastCall' = Call(op, id, "", "")
    /\ ret' = "void"
    /\ UNCHANGED <<now, cartItems, orders, userVars, modalVars, panelVars, timers>>

CallAddMenuItem(item) ==
    /\ Len(issuedIds) < MaxAdds
    /\ issuedIds' = Append(issuedIds, generateId(allDishes))
    /\ CatalogCall(addMenuItem(Manager, item), "addMenuItem", generateId(allDishes))

CallUpdateMenuItem(itemId, updates) ==
    /\ CatalogCall(updateMenuItem(Manager, itemId, updates), "updateMenuItem", itemId)
    /\ UNCHANGED issuedIds

CallAddExistingDish(dishId) ==
    /\ CatalogCall(addExistingDish(Manager, dishId), "addExistingDish", dishId)
    /\ UNCHANGED issuedIds

CallRemoveMenuItem(itemId) ==
    /\ CatalogCall(removeMenuItem(Manager, itemId), "removeMenuItem", itemId)
    /\ UNCHANGED issuedIds

CallDeletePermanent(itemId) ==
    /\ CatalogCall(deletePermanent(Manager, itemId), "deletePermanent", itemId)
    /\ UNCHANGED issuedIds

NextMenu ==
    \/ \E item \in Drafts : CallAddMenuItem(item)
    \/ \E id \in DishIds, updates \in Updates : CallUpdateMenuItem(id, updates)
    \/ \E id \in DishIds : CallAddExistingDish(id)
    \/ \E id \in DishIds : CallRemoveMenuItem(id)
    \/ \E id \in DishIds : CallDeletePermanent(id)

SpecMenu == Init /\ [][NextMenu]_vars

(***************************************************************************)
(* Menu load.  response is what the fetch of /menu yields: Some(list) when *)
(* it resolves with a 2xx JSON list, None when it fails in any way.        *)
(* getMenu passes no method, so ApiClient.request rethrows the failure and *)
(* loadMenu's catch falls back to loadMenuFromStorage.                     *)
(***************************************************************************)
initializeDefaultMenu(m) ==
    [items |-> <<>>, all |-> <<>>,
     ls |-> saveAllDishesToStorage(saveMenuToStorage(m.ls, <<>>), <<>>)]

loadMenuFromStorage(m) ==
    IF m.ls.menuItems # NoItem
    THEN [items |-> SeqMap(Loaded, SelectSeq(JsonParse(m.ls.menuItems),
                                             LAMBDA item : item.isActive # FALSE)),
          all |-> m.all, ls |-> m.ls]
    ELSE initializeDefaultMenu(m)

\* mutant: a failed fetch leaves the menu as the constructor made it
loadMenu_NoFallback(m, response) ==
    IF response # None
    THEN [items |-> SeqMap(Loaded, response[1]), all |-> m.all,
          ls |-> setItem(m.ls, "menuItems", response[1])]
    ELSE m

loadMenu(m, response) ==
    IF response # None
    THEN [items |-> SeqMap(Loaded, response[1]), all |-> m.all,
          ls |-> setItem(m.ls, "menuItems", response[1])]
    ELSE loadMenuFromStorage(m)

FetchOutcomes == {None, Some(RemoteMenu)}

FetchTag(response) == IF response = None THEN "failed" ELSE "ok"

\* the MenuManager as its field initialisers leave it, over storage ls
NewManager(ls) == [items |-> <<>>, all |-> <<>>, ls |-> ls]

(***************************************************************************)
(* SpecCatalog: the catalog driven through MenuManager's methods, across   *)
(* page loads whose menu fetch succeeds or fails, from a fresh profile.    *)
(***************************************************************************)
InitCatalog ==
    \E response \in FetchOutcomes :
        LET m == loadMenu(NewManager(setItem(EmptyStorage, "users", initializeUsers)),
                          response)
        IN  /\ now = 1
            /\ localStorage = m.ls
            /\ cartItems = <<>>
            /\ currentUser = None
            /\ users = initializeUsers
            /\ orders = <<>>
            /\ menuItems = m.items
            /\ allDishes = m.all
            /\ activeModalId = NoModal
            /\ currentCallback = NoCallback
            /\ adminOrdersList = {}
            /\ activeFilter = "all"
            /\ adminBtnShown = FALSE
            /\ timers = NoTimers
            /\ issuedIds = <<>>
            /\ lastCall = Call("loadMenu", 0, FetchTag(response), "")
            /\ ret = "void"

LoadPage(response) ==
    LET m == loadMenu(NewManager(setItem(localStorage, "users", initializeUsers)),
                      response)
    IN  /\ cartItems' = loadFromStorage(localStorage)
        /\ users' = initializeUsers
        /\ currentUser' = loadCurrentUser(localStorage)
        /\ orders' = <<>>
        /\ adminBtnShown' = updateUserDisplay(loadCurrentUser(localStorage), FALSE)
        /\ localStorage' = m.ls
        /\ menuItems' = m.items
        /\ allDishes' = m.all
        /\ activeModalId' = NoModal
        /\ currentCallback' = NoCallback
        /\ adminOrdersList' = {}
        /\ activeFilter' = "all"
        /\ timers' = NoTimers
        /\ lastCall' = Call("loadMenu", 0, FetchTag(response), "")
        /\ ret' = "void"
        /\ UNCHANGED <<now, issuedIds>>

NextCatalog ==
    \/ \E item \in Drafts : CallAddMenuItem(item)
    \/ \E id \in DishIds, updates \in Updates : CallUpdateMenuItem(id, updates)
    \/ \E id \in DishIds : CallAddExistingDish(id)
    \/ \E id \in DishIds : CallRemoveMenuItem(id)
    \/ \E id \in DishIds : CallDeletePermanent(id)
    \/ \E response \in FetchOutcomes : LoadPage(response)

SpecCatalog == InitCatalog /\ [][NextCatalog]_vars

(***************************************************************************)
(* SpecCart: the cart driven directly through CartManager's methods, from  *)
(* the empty cart of a fresh profile.  The dishes offered are the loaded   *)
(* menu and a dish that carries the id of a loaded one.                    *)
(***************************************************************************)
CartDishes ==
    {RemoteMenu[1], RemoteMenu[2],
     [id |-> 1, name |-> "tea", price |-> 50, category |-> "drinks",
      isNew |-> TRUE, isActive |-> TRUE]}

CartIds == 1..3

Quantities == (0 - 1)..(MaxQty + 1)

CartCall(items, saved, op, id) ==
    /\ cartItems' = items
    /\ localStorage' = IF saved THEN setItem(localStorage, "cart", items)
                       ELSE localStorage
    /\ lastCall' = Call(op, id, "", "")
    /\ ret' = "void"
    /\ UNCHANGED <<now, orders, menuVars, userVars, modalVars, panelVars, timers>>

CallAddItem(item) ==
    /\ \A i \in 1..Len(cartItems) : cartItems[i].quantity < MaxQty
    /\ CartCall(addItem(cartItems, item), TRUE, "addItem", item.id)

CallRemoveItem(itemId) ==
    /\ itemId \in CartIds
    /\ CartCall(removeCartItem(cartItems, itemId), TRUE, "removeItem", itemId)

CallUpdateQuantity(itemId, quantity) ==
    LET u == updateQuantity(cartItems, itemId, quantity)
    IN  /\ quantity \in Quantities
        /\ CartCall(u.items, u.saved, "updateQuantity", itemId)

CallClear ==
    /\ clear = <<>>
    /\ CartCall(clear, TRUE, "clear", 0)

\* getTotal(): reduce over this.items; the number it returns is kept in ret
CallGetTotal ==
    /\ lastCall' = Call("getTotal", 0, "", "")
    /\ ret' = Some(getTotal(cartItems))
    /\ UNCHANGED <<now, localStorage, cartItems, orders, menuVars, userVars,
                   modalVars, panelVars, timers>>

NextCart ==
    \/ \E item \in CartDishes : CallAddItem(item)
    \/ \E id \in CartIds : CallRemoveItem(id)
    \/ \E id \in CartIds, q \in Quantities : CallUpdateQuantity(id, q)
    \/ CallClear
    \/ CallGetTotal

SpecCart == Init /\ [][NextCart]_vars

(***************************************************************************)
(* SpecSession: the identity store driven through UserManager.login and    *)
(* UserManager.logout, across page loads, from a fresh profile.            *)
(***************************************************************************)
SessionEmails == {"admin@sibsiu.ru", "student@sibsiu.ru", "Student@sibsiu.ru",
                  "student@sibsiu.ru ", "admin", "nobody@sibsiu.ru", ""}
SessionPasswords == {"password", "Password", "password ", "ADMIN001", "wrong", ""}

CallLogin(email, password) ==
    LET r == login(email, password)
    IN  /\ currentUser' = r.currentUser
        /\ localStorage' = r.ls
        /\ adminBtnShown' = r.shown
        /\ lastCall' = Call("login", 0, email, password)
        /\ ret' = IF r.ret THEN "true" ELSE "false"
        /\ UNCHANGED <<now, cartItems, users, orders, menuVars, modalVars,
                       panelVars, timers>>

CallLogout ==
    /\ currentUser' = logout.currentUser
    /\ localStorage' = logout.ls
    /\ adminBtnShown' = logout.shown
    /\ lastCall' = Call("logout", 0, "", "")
    /\ ret' = "void"
    /\ UNCHANGED <<now, cartItems, users, orders, menuVars, modalVars,
                   panelVars, timers>>

NextSession ==
    \/ \E email \in SessionEmails, password \in SessionPasswords :
          CallLogin(email, password)
    \/ CallLogout
    \/ \E response \in FetchOutcomes : LoadPage(response)

SpecSession == Init /\ [][NextSession]_vars

(***************************************************************************)
(* processOrder when one of its calls into the platform throws.  The whole *)
(* body is one try block; the steps that leave the program are the read of *)
(* #order-time's value (the element may be missing), localStorage.setItem  *)
(* in addOrder, window.open, and localStorage.setItem in cartManager.clear.*)
(* The catch logs and shows a toast; it restores nothing.                  *)
(***************************************************************************)
ThrowPoints == {"orderTime", "saveOrders", "windowOpen", "saveCart"}

ProcessOrderError(selectedTime, step) ==
    LET order == NewOrder(currentUser[1], cartItems, selectedTime, now)
        added == addOrder(orders, localStorage, order)
    IN  /\ PageOpen
        /\ currentUser # None
        /\ Len(cartItems) # 0
        /\ step \in ThrowPoints
        /\ step # "orderTime" => Truthy(selectedTime)
        /\ now <= MaxClock
        /\ IF step = "orderTime"
           THEN UNCHANGED <<now, orders, localStorage, cartItems>>
           ELSE /\ now' = now + 1
                /\ orders' = added.orders
                /\ localStorage' = IF step = "saveOrders" THEN localStorage
                                   ELSE added.ls
                /\ cartItems' = IF step = "saveCart" THEN clear ELSE cartItems
        /\ lastCall' = Call("processOrder.catch", 0, step, selectedTime)
        /\ ret' = "void"
        /\ UNCHANGED <<menuVars, userVars, modalVars, panelVars, timers>>

(***************************************************************************)
(* SpecOrderErrors: the student's checkout within one page load, with      *)
(* attempts that fail.                                                     *)
(***************************************************************************)
NextOrderErrors ==
    \/ AddToCartClick(1, MaxQty)
    \/ \E e \in Emails, p \in Passwords : LoginSubmit(e, p)
    \/ \E t \in OrderTimes : ProcessOrder(t)
    \/ \E t \in OrderTimes, step \in ThrowPoints : ProcessOrderError(t, step)
    \/ \E r \in {"true", "false"} : CloseModal(r)
    \/ \E k \in {"loginSuccess", "logoutSuccess"} : SuccessModalTimer(k)

SpecOrderErrors == Init /\ [][NextOrderErrors]_vars

(***************************************************************************)
(* The admin's dish forms.  A text typed into a field is a sequence of     *)
(* characters; '' is the empty sequence.                                   *)
(***************************************************************************)
IsDigit(c) == c \in {"0", "1", "2", "3", "4", "5", "6", "7", "8", "9"}

DigitValue(c) ==
    CASE c = "0" -> 0 [] c = "1" -> 1 [] c = "2" -> 2 [] c = "3" -> 3
      [] c = "4" -> 4 [] c = "5" -> 5 [] c = "6" -> 6 [] c = "7" -> 7
      [] c = "8" -> 8 [] c = "9" -> 9

\* the value of the digits of text from position i on, up to the first
\* character that is not a digit
RECURSIVE ParseDigits(_, _, _)
ParseDigits(text, i, acc) ==
    IF i > Len(text) \/ ~IsDigit(text[i]) THEN acc
    ELSE ParseDigits(text, i + 1, acc * 10 + DigitValue(text[i]))

\* parseInt: an optional sign and the leading digits; None is NaN
parseInt(text) ==
    LET signed == Len(text) > 0 /\ text[1] \in {"-", "+"}
        start == IF signed THEN 2 ELSE 1
        sign == IF signed /\ text[1] = "-" THEN 0 - 1 ELSE 1
    IN  IF start > Len(text) \/ ~IsDigit(text[start]) THEN None
        ELSE Some(sign * ParseDigits(text, start, 0))

FormData(name, price, description, category, image, isNew) ==
    [name |-> name, price |-> price, description |-> description,
     category |-> category, image |-> image, isNew |-> isNew]

\* the price field takes numeric text: it is an <input type="number">
PriceTexts == {<<>>, <<"0">>, <<"-", "5">>, <<"5", "0">>, <<"0", ".", "5">>}

AddForms ==
    {FormData(name, price, description, "drinks", "tea.png", "on") :
        name \in {"", "tea"}, price \in PriceTexts, description \in {"", "hot"}}

EditForms ==
    {FormData(name, price, "hot", "first", "borscht.png", "") :
        name \in {"", "borscht"}, price \in PriceTexts}

\* the dish fields a submit handler builds from the form
FormItem(f) ==
    [name |-> f.name, price |-> parseInt(f.price)[1], category |-> f.category,
     isNew |-> (f.isNew = "on")]

\* submit listener of #add-menu-item-form
AddFormAccepts(f) ==
    /\ Truthy(f.name) /\ f.price # <<>> /\ Truthy(f.description)
    /\ Truthy(f.category) /\ Truthy(f.image)
    /\ ~(parseInt(f.price) # None /\ parseInt(f.price)[1] <= 0)

AddFormSubmit(f) ==
    /\ PageOpen
    /\ Len(issuedIds) < MaxAdds
    /\ IF AddFormAccepts(f)
       THEN LET m == addMenuItem(Manager, FormItem(f))
            IN  /\ menuItems' = m.items
                /\ allDishes' = m.all
                /\ localStorage' = m.ls
                /\ issuedIds' = Append(issuedIds, generateId(allDishes))
                /\ activeModalId' = "dish-added-modal"
                /\ currentCallback' = Callback("dishAdded", "setupAdminPanel", 0, "")
       ELSE UNCHANGED <<menuVars, localStorage, modalVars>>
    /\ lastCall' = Call("addForm", 0, f.name, f.description)
    /\ ret' = "void"
    /\ UNCHANGED <<now, cartItems, orders, userVars, panelVars, timers>>

\* the constraint validation the browser runs on the generated edit form
\* before it fires submit: every field is required, the price is a number
EditFormValid(f) ==
    /\ f.name # "" /\ f.description # "" /\ f.category # "" /\ f.image # ""
    /\ parseInt(f.price) # None
    /\ \A i \in 1..Len(f.price) : IsDigit(f.price[i]) \/ (i = 1 /\ f.price[i] = "-")

\* the edit form of a dish that openEditModal finds, submitted
EditFormSubmit(itemId, f) ==
    /\ PageOpen
    /\ \E i \in 1..Len(menuItems) : menuItems[i].id = itemId
    /\ \E i \in 1..Len(allDishes) : allDishes[i].id = itemId
    /\ IF EditFormValid(f)
       THEN LET m == updateMenuItem(Manager, itemId, FormItem(f))
            IN  /\ menuItems' = m.items
                /\ allDishes' = m.all
                /\ localStorage' = m.ls
       ELSE UNCHANGED <<menuItems, allDishes, localStorage>>
    /\ lastCall' = Call("editForm", itemId, f.name, "")
    /\ ret' = "void"
    /\ UNCHANGED <<now, cartItems, orders, issuedIds, userVars, modalVars,
                   panelVars, timers>>

(***************************************************************************)
(* SpecForms: the catalog as the admin's two forms change it.              *)
(***************************************************************************)
NextForms ==
    \/ \E f \in AddForms : AddFormSubmit(f)
    \/ \E id \in DishIds, f \in EditForms : EditFormSubmit(id, f)
    \/ \E r \in {"true", "false"} : CloseModal(r)

SpecForms == Init /\ [][NextForms]_vars

(***************************************************************************)
(* SpecShop: add-to-cart clicks on a menu the admin adds dishes to.        *)
(***************************************************************************)
NextShop ==
    \/ \E item \in Drafts : CallAddMenuItem(item)
    \/ \E id \in DishIds : CallRemoveMenuItem(id)
    \/ \E id \in DishIds : AddToCartClick(id, MaxQty)

SpecShop == Init /\ [][NextShop]_vars

(***************************************************************************)
(* SpecPending: the window between the MenuManager constructor, which      *)
(* starts loadMenu and returns with an empty active list, and the moment   *)
(* the awaited getMenu settles.  The catalog methods run in that window as *)
(* they run after it.                                                      *)
(***************************************************************************)
Profiles ==
    {setItem(EmptyStorage, "users", initializeUsers),
     setItem(setItem(EmptyStorage, "users", initializeUsers), "menuItems", RemoteMenu)}

\* new MenuManager(): loadMenu runs up to its await
OpenPage(ls) ==
    /\ menuItems = NewManager(ls).items
    /\ allDishes = NewManager(ls).all
    /\ localStorage = NewManager(ls).ls
    /\ timers = setTimeout(NoTimers, "menuFetch")

InitPending ==
    /\ \E ls \in Profiles : OpenPage(ls)
    /\ now = 1
    /\ cartItems = <<>>
    /\ currentUser = None
    /\ users = initializeUsers
    /\ orders = <<>>
    /\ activeModalId = NoModal
    /\ currentCallback = NoCallback
    /\ adminOrdersList = {}
    /\ activeFilter = "all"
    /\ adminBtnShown = FALSE
    /\ issuedIds = <<>>
    /\ lastCall = Call("init", 0, "", "")
    /\ ret = "void"

\* the rest of loadMenu, once getMenu has resolved or rejected
LoadMenuCompletes(response) ==
    LET m == loadMenu(Manager, response)
    IN  /\ timers.menuFetch > 0
        /\ timers' = [timers EXCEPT !.menuFetch = @ - 1]
        /\ menuItems' = m.items
        /\ allDishes' = m.all
        /\ localStorage' = m.ls
        /\ lastCall' = Call("loadMenu", 0, FetchTag(response), "")
        /\ ret' = "void"
        /\ UNCHANGED <<now, cartItems, orders, issuedIds, userVars, modalVars,
                       panelVars>>

NextPending ==
    \/ \E item \in Drafts : CallAddMenuItem(item)
    \/ \E id \in DishIds : CallAddExistingDish(id)
    \/ \E id \in DishIds : CallRemoveMenuItem(id)
    \/ \E response \in FetchOutcomes : LoadMenuCompletes(response)

SpecPending == InitPending /\ [][NextPending]_vars

(***************************************************************************)
(* The persisted order collection, as the claims speak of it.              *)
(***************************************************************************)
PersistedIds(ls) == {getAllOrders(ls)[i].id : i \in 1..Len(getAllOrders(ls))}

\* the order updateOrderStatus and the panel address by this id
PersistedOrder(ls, id) ==
    getAllOrders(ls)[findIndex(getAllOrders(ls), LAMBDA o : o.id = id)]

PersistedStatus(ls, id) == PersistedOrder(ls, id).status

Terminal == {"completed", "cancelled"}

LegalEdges ==
    { <<"pending", "preparing">>, <<"preparing", "ready">>,
      <<"ready", "completed">>, <<"pending", "cancelled">>,
      <<"preparing", "cancelled">> }

\* a step taken by a button of the admin order panel or of the modal it opened
AdminPanelStep ==
    \/ \E e \in adminOrdersList, a \in StatusActions : StatusBtnClick(e, a)
    \/ \E r \in {"true", "false"} \cup TimeInputs : CloseModal(r)

\* C1: every status change made by an admin-panel action follows one of the
\* edges pending->preparing, preparing->ready, ready->completed,
\* pending->cancelled, preparing->cancelled.
C1_AdminEdgesLegal ==
    [][AdminPanelStep =>
         \A id \in PersistedIds(localStorage) :
            \/ PersistedStatus(localStorage', id) = PersistedStatus(localStorage, id)
            \/ <<PersistedStatus(localStorage, id),
                 PersistedStatus(localStorage', id)>> \in LegalEdges]_vars

\* C2: an order whose persisted status is completed or cancelled keeps that
\* status for as long as it is in the persisted collection.
C2_TerminalIsFinal ==
    [][\A id \in PersistedIds(localStorage) \cap PersistedIds(localStorage') :
          PersistedStatus(localStorage, id) \in Terminal
          => PersistedStatus(localStorage', id) = PersistedStatus(localStorage, id)]_vars

\* C3: no step takes the persisted status of an existing order from
\* preparing, ready, completed or cancelled back to pending.
C3_NoReturnToPending ==
    [][\A id \in PersistedIds(localStorage) \cap PersistedIds(localStorage') :
          PersistedStatus(localStorage, id) # "pending"
          => PersistedStatus(localStorage', id) # "pending"]_vars

\* C4: the persisted order collection is append-only: an order id that is in
\* it is still in it after every step.
C4_OrdersAppendOnly ==
    [][PersistedIds(localStorage) \subseteq PersistedIds(localStorage')]_vars

\* C5: an order rendered as ready, completed or cancelled has no cancel
\* button, and a cancellation waiting for confirmation was requested on an
\* order rendered as pending or preparing.
C5_CancelOfferedOnlyEarly ==
    /\ \A e \in adminOrdersList :
          "cancelled" \in e.buttons => e.status \in {"pending", "preparing"}
    /\ currentCallback.kind = "cancelOrder"
          => currentCallback.renderedAs \in {"pending", "preparing"}

\* the panel shows a ready order and a cancelled one: neither has a cancel button
C5_Witness ==
    \E e1, e2 \in adminOrdersList :
        /\ e1.status = "ready"
        /\ e2.status = "cancelled"
        /\ "cancelled" \notin (e1.buttons \cup e2.buttons)

\* C6: updateOrderStatus with an id that no persisted order has returns
\* false and leaves the persisted collection (and all of storage) as it was.
C6_UnknownIdIsNoOp ==
    [][(/\ lastCall'.op = "updateOrderStatus"
        /\ CallUpdateOrderStatus(lastCall'.id, lastCall'.s, lastCall'.t)
        /\ lastCall'.id \notin PersistedIds(localStorage))
       => (ret' = "false" /\ localStorage' = localStorage)]_vars

\* the last call named an id that is not persisted, beside orders that are
C6_Witness ==
    /\ lastCall.op = "updateOrderStatus"
    /\ ret = "false"
    /\ PersistedIds(localStorage) # {}
    /\ lastCall.id \notin PersistedIds(localStorage)

\* C7: updateOrderStatus with a persisted id returns true, sets the status of
\* the first order with that id, sets its estimatedTime to a time that was
\* given (a non-empty string) and keeps it otherwise, and changes nothing
\* else: not that order's id, userId, items or total, and no other order.
C7_UpdateTouchesOnlyStatusAndTime ==
    [][(/\ lastCall'.op = "updateOrderStatus"
        /\ CallUpdateOrderStatus(lastCall'.id, lastCall'.s, lastCall'.t)
        /\ lastCall'.id \in PersistedIds(localStorage))
       => LET id == lastCall'.id
              st == lastCall'.s
              t == lastCall'.t
              old == getAllOrders(localStorage)
              new == getAllOrders(localStorage')
              i == findIndex(old, LAMBDA o : o.id = id)
          IN  /\ ret' = "true"
              /\ Len(new) = Len(old)
              /\ new[i].status = st
              /\ new[i].estimatedTime =
                    (IF Truthy(t) THEN t ELSE old[i].estimatedTime)
              /\ new[i].id = old[i].id
              /\ new[i].userId = old[i].userId
              /\ new[i].items = old[i].items
              /\ new[i].total = old[i].total
              /\ \A j \in 1..Len(old) : j # i => new[j] = old[j]]_vars

\* a call without a time changed the status of an order whose pickup time
\* stayed, beside another order that stayed pending
C7_Witness ==
    /\ lastCall.op = "updateOrderStatus"
    /\ lastCall.t = Undefined
    /\ ret = "true"
    /\ Len(getAllOrders(localStorage)) = 2
    /\ PersistedStatus(localStorage, lastCall.id) = lastCall.s
    /\ lastCall.s # "pending"
    /\ PersistedOrder(localStorage, lastCall.id).estimatedTime = "12:30"
    /\ \E j \in 1..2 : getAllOrders(localStorage)[j].status = "pending"

\* C8: a checkout attempted without a signed-in user, with an empty cart or
\* without a pickup time adds no order and leaves the cart, the in-memory
\* orders and the persisted order collection (all of storage) unchanged; so
\* an order is recorded only when all three conditions hold.
C8_CheckoutNeedsUserCartTime ==
    [][\A t \in OrderTimes :
          (ProcessOrder(t) /\ (currentUser = None \/ cartItems = <<>> \/ ~Truthy(t)))
          => UNCHANGED <<orders, cartItems, localStorage>>]_vars

\* a checkout was refused for want of a user while the cart held lines
C8_Witness ==
    /\ activeModalId = "login-required-modal"
    /\ currentCallback.src = "processOrder"
    /\ currentUser = None
    /\ cartItems # <<>>
    /\ loadFromStorage(localStorage) = cartItems

\* C9: a successful checkout appends exactly one order to the in-memory orders
\* and leaves exactly one order in the persisted collection that was not
\* there before; that order carries the signed-in user's id, the cart lines
\* at checkout, their sum of price x quantity as total, status pending and the
\* selected time; afterwards the cart is empty in memory and in storage.
C9_CheckoutRecordsTheCart ==
    [][\A t \in OrderTimes :
          (ProcessOrder(t) /\ currentUser # None /\ cartItems # <<>> /\ Truthy(t))
          => LET o == orders'[Len(orders')]
                 old == getAllOrders(localStorage)
                 new == getAllOrders(localStorage')
                 fresh == {j \in 1..Len(new) :
                              \A k \in 1..Len(old) : old[k] # new[j]}
             IN  /\ orders' = Append(orders, o)
                 /\ fresh = {Len(new)}
                 /\ new[Len(new)] = o
                 /\ o.userId = currentUser[1].id
                 /\ o.items = cartItems
                 /\ o.total = SeqSum(SeqMap(LAMBDA l : l.price * l.quantity, cartItems))
                 /\ o.status = "pending"
                 /\ o.estimatedTime = t
                 /\ cartItems' = <<>>
                 /\ loadFromStorage(localStorage') = <<>>]_vars

\* the student's order of two soups at 100 is recorded with total 200 and
\* the cart is empty
C9_Witness ==
    /\ cartItems = <<>>
    /\ loadFromStorage(localStorage) = <<>>
    /\ \E j \in 1..Len(getAllOrders(localStorage)) :
          LET o == getAllOrders(localStorage)[j]
          IN  /\ o.userId = testStudent.id
              /\ Len(o.items) = 1
              /\ o.items[1].quantity = 2
              /\ o.total = 200
              /\ o.status = "pending"
              /\ o.estimatedTime = "12:30"
              /\ orders # <<>>
              /\ orders[Len(orders)] = o

\* C10 as stated: every id addMenuItem assigns is strictly greater than every
\* id an earlier addMenuItem assigned and differs from every id in the archive
\* at that moment; from an empty archive consecutive adds assign 1, 2, 3.
C10_IdsStrictlyIncreasing ==
    [][\A item \in Drafts :
          CallAddMenuItem(item)
          => LET id == issuedIds'[Len(issuedIds')]
             IN  /\ \A k \in 1..Len(issuedIds) : issuedIds[k] < id
                 /\ \A k \in 1..Len(allDishes) : allDishes[k].id # id
                 /\ allDishes = <<>> => id = 1
                 /\ lastCall.op = "addMenuItem" => id = lastCall.id + 1]_vars

\* C10 amended: every id addMenuItem assigns is strictly greater than every id
\* in the archive at that moment (so it differs from each of them) and is the
\* id of the dish appended to the archive and to the active list; the first
\* add on an empty archive assigns 1 and an add that directly follows an add
\* assigns the next integer, so three consecutive adds from an empty archive
\* assign 1, 2, 3.
C10_IdsAboveArchive ==
    [][\A item \in Drafts :
          CallAddMenuItem(item)
          => LET id == issuedIds'[Len(issuedIds')]
             IN  /\ \A k \in 1..Len(allDishes) : allDishes[k].id < id
                 /\ allDishes' = Append(allDishes, allDishes'[Len(allDishes')])
                 /\ allDishes'[Len(allDishes')].id = id
                 /\ menuItems'[Len(menuItems')].id = id
                 /\ allDishes = <<>> => id = 1
                 /\ lastCall.op = "addMenuItem" => id = lastCall.id + 1]_vars

\* two adds assigned 1 and 2, dish 2 was deleted for good, and the next add
\* assigned 2 again, above the one id the archive still held
C10_Witness ==
    /\ issuedIds = <<1, 2, 2>>
    /\ lastCall.op = "addMenuItem"
    /\ lastCall.id = 2
    /\ Len(allDishes) = 2
    /\ allDishes[1].id = 1
    /\ allDishes[2].id = 2

(***************************************************************************)
(* The catalog, as the claims speak of it.                                 *)
(***************************************************************************)
IdsOf(list) == {list[k].id : k \in 1..Len(list)}

UniqueIds(list) ==
    \A i, j \in 1..Len(list) : list[i].id = list[j].id => i = j

\* the field values of the active list, without the identity annotation
ActiveDishes(items) == SeqMap(Dish, items)

\* C11: no two entries of the active list share an id and no two entries of
\* the archive share an id, in every state reachable by menu loads and
\* catalog operations.
C11_DishIdsUnique == UniqueIds(menuItems) /\ UniqueIds(allDishes)

\* C12: every dish id in the active list is also present in the in-memory
\* archive, in every reachable state.
C12_ArchiveCoversActive == IdsOf(menuItems) \subseteq IdsOf(allDishes)

\* the manager a step leaves behind
ManagerAfter == [items |-> menuItems', all |-> allDishes', ls |-> localStorage']

\* C13: removeMenuItem(id) removes the first entry with that id from the
\* active list and leaves the archive as it was, entry by entry and field by
\* field (isActive included); when id is not in the active list nothing
\* changes.
C13_RemoveLeavesArchive ==
    [][(/\ lastCall'.op = "removeMenuItem"
        /\ CallRemoveMenuItem(lastCall'.id))
       => LET i == findIndex(menuItems, LAMBDA e : e.id = lastCall'.id)
          IN  /\ allDishes' = allDishes
              /\ i # 0 => ActiveDishes(menuItems') = ActiveDishes(Splice(menuItems, i))
              /\ i = 0 => /\ menuItems' = menuItems
                          /\ localStorage' = localStorage]_vars

\* C14: after removeMenuItem(id) on a dish of the active list, whether added
\* in this session or loaded by loadMenu, getInactiveDishes() contains a dish
\* with that id and a following addExistingDish(id) puts a dish with that id
\* and the same name, price and category back into the active list.
C14_SoftRemovalRestorable ==
    [][(/\ lastCall'.op = "removeMenuItem"
        /\ CallRemoveMenuItem(lastCall'.id)
        /\ lastCall'.id \in IdsOf(menuItems))
       => LET id == lastCall'.id
              removed == menuItems[findIndex(menuItems, LAMBDA e : e.id = id)]
              restored == addExistingDish(ManagerAfter, id).items
          IN  /\ id \in IdsOf(getInactiveDishes(ManagerAfter))
              /\ \E k \in 1..Len(restored) :
                    /\ restored[k].id = id
                    /\ restored[k].name = removed.name
                    /\ restored[k].price = removed.price
                    /\ restored[k].category = removed.category]_vars

\* C15: addExistingDish(id) appends exactly one entry with that id to the
\* active list when the archive contains id and the active list does not, and
\* leaves the archive and its persisted snapshot alone; in every other case
\* the active list, the archive and all of storage are unchanged; a second
\* call right after changes nothing.
C15_AddExistingOnceOnly ==
    [][(/\ lastCall'.op = "addExistingDish"
        /\ CallAddExistingDish(lastCall'.id))
       => LET id == lastCall'.id
              n == Len(menuItems)
          IN  /\ allDishes' = allDishes
              /\ localStorage'.allDishes = localStorage.allDishes
              /\ IF id \in IdsOf(allDishes) /\ id \notin IdsOf(menuItems)
                 THEN /\ Len(menuItems') = n + 1
                      /\ SubSeq(menuItems', 1, n) = menuItems
                      /\ menuItems'[n + 1].id = id
                 ELSE /\ menuItems' = menuItems
                      /\ localStorage' = localStorage
              /\ addExistingDish(ManagerAfter, id) = ManagerAfter]_vars

\* a dish added in this session and removed was put back by addExistingDish:
\* the active list holds it once, as an active copy of the archive entry
C15_Witness ==
    /\ lastCall.op = "addExistingDish"
    /\ \E i \in 1..Len(menuItems), k \in 1..Len(allDishes) :
          /\ menuItems[i].id = lastCall.id
          /\ allDishes[k].id = lastCall.id
          /\ menuItems[i].isActive
          /\ ~allDishes[k].isActive
          /\ menuItems[i].name = allDishes[k].name
          /\ \A j \in 1..Len(menuItems) : menuItems[j].id = lastCall.id => j = i

\* the entries of a list whose id is not the given one, in order
Others(list, id) == SelectSeq(list, LAMBDA d : d.id # id)

\* C16: after deletePermanent(id) no entry with that id is in the active list
\* or in the archive, the entries with other ids are unchanged in both lists,
\* and getInactiveDishes() does not include the deleted dish.
C16_DeletePermanentRemovesAll ==
    [][(/\ lastCall'.op = "deletePermanent"
        /\ CallDeletePermanent(lastCall'.id))
       => LET id == lastCall'.id
          IN  /\ id \notin IdsOf(menuItems')
              /\ id \notin IdsOf(allDishes')
              /\ Others(ActiveDishes(menuItems'), id) = Others(ActiveDishes(menuItems), id)
              /\ Others(allDishes', id) = Others(allDishes, id)
              /\ id \notin IdsOf(getInactiveDishes(ManagerAfter))]_vars

\* dish d carries the given fields and is otherwise dish old
Overwritten(d, old, updates) ==
    /\ d.name = updates.name
    /\ d.price = updates.price
    /\ d.category = updates.category
    /\ d.isNew = updates.isNew
    /\ d.id = old.id
    /\ d.isActive = old.isActive

\* list new is list old with the given fields overwritten in the first entry
\* of the id, if there is one, and nothing else changed
MergedInto(new, old, id, updates) ==
    LET i == findIndex(old, LAMBDA d : d.id = id)
    IN  /\ Len(new) = Len(old)
        /\ i # 0 => Overwritten(new[i], old[i], updates)
        /\ \A j \in 1..Len(old) : j # i => new[j] = old[j]

\* C17: updateMenuItem(id, fields) overwrites the given fields in the (first)
\* entry with that id of the active list if there is one, and of the archive
\* if there is one, each independently; every other entry is unchanged and
\* the lists keep their lengths, also when the id is absent from one or both.
C17_UpdateMergesBothLists ==
    [][\A updates \in Updates :
          (/\ lastCall'.op = "updateMenuItem"
           /\ CallUpdateMenuItem(lastCall'.id, updates))
          => /\ MergedInto(ActiveDishes(menuItems'), ActiveDishes(menuItems),
                           lastCall'.id, updates)
             /\ MergedInto(allDishes', allDishes, lastCall'.id, updates)]_vars

\* a loaded dish that the archive does not hold was renamed in the active
\* list, beside an archive entry and another active entry that kept their names
C17_Witness ==
    /\ lastCall.op = "updateMenuItem"
    /\ lastCall.id \notin IdsOf(allDishes)
    /\ allDishes # <<>>
    /\ \A k \in 1..Len(allDishes) : allDishes[k].name = "tea"
    /\ \E i, j \in 1..Len(menuItems) :
          /\ menuItems[i].id = lastCall.id
          /\ menuItems[i].name = "borscht"
          /\ menuItems[i].price = 120
          /\ menuItems[j].name # "borscht"

\* the persisted active-menu snapshot, or nothing
Snapshot(ls) == IF ls.menuItems # NoItem THEN JsonParse(ls.menuItems) ELSE <<>>

\* C18: loadMenu always completes.  When the fetch fails the active list
\* becomes the persisted active-menu snapshot, or the empty list when there
\* is none (the first load of a fresh profile); when the fetch succeeds the
\* active list becomes the fetched list and the snapshot is overwritten with it.
C18_LoadMenuFallsBack ==
    /\ lastCall.s = "failed" => menuItems = <<>>
    /\ lastCall.s = "ok" => /\ ActiveDishes(menuItems) = RemoteMenu
                            /\ Snapshot(localStorage) = RemoteMenu
    /\ [][\A response \in FetchOutcomes :
             (/\ lastCall'.op = "loadMenu"
              /\ lastCall'.s = FetchTag(response)
              /\ LoadPage(response))
             => IF response = None
                THEN ActiveDishes(menuItems') = Snapshot(localStorage)
                ELSE /\ ActiveDishes(menuItems') = response[1]
                     /\ Snapshot(localStorage') = response[1]]_vars

\* a page load whose fetch failed restored a snapshot that a catalog
\* operation had written and that differs from what the remote serves
C18_Witness ==
    /\ lastCall.op = "loadMenu"
    /\ lastCall.s = "failed"
    /\ menuItems # <<>>
    /\ ActiveDishes(menuItems) = Snapshot(localStorage)
    /\ Snapshot(localStorage) # RemoteMenu
    /\ allDishes = <<>>

\* the persisted archive, or nothing
PersistedArchive(ls) == IF ls.allDishes # NoItem THEN JsonParse(ls.allDishes) ELSE <<>>

\* C19: after each of addMenuItem, updateMenuItem, removeMenuItem,
\* addExistingDish and deletePermanent the persisted active-menu snapshot
\* equals the in-memory active list and the persisted archive equals the
\* in-memory archive (an archive never written counts as empty).
C19_MutationsMirrored ==
    [][lastCall'.op \in {"addMenuItem", "updateMenuItem", "removeMenuItem",
                         "addExistingDish", "deletePermanent"}
       => /\ Snapshot(localStorage') = ActiveDishes(menuItems')
          /\ PersistedArchive(localStorage') = allDishes']_vars

\* C20: starting from an empty cart, after any sequence of addItem,
\* removeItem, updateQuantity and clear the cart never contains two lines
\* with the same dish id.
C20_OneLinePerDish == UniqueIds(cartItems)

\* a dish was added a second time and the cart holds it in one line of
\* quantity 2, beside the line of another dish
C20_Witness ==
    /\ lastCall.op = "addItem"
    /\ Len(cartItems) = 2
    /\ \E i \in 1..2 : /\ cartItems[i].id = lastCall.id
                       /\ cartItems[i].quantity = 2

(***************************************************************************)
(* Cart arithmetic.                                                        *)
(***************************************************************************)
RECURSIVE SumOfLines(_, _)
SumOfLines(items, n) ==
    IF n = 0 THEN 0
    ELSE SumOfLines(items, n - 1) + items[n].price * items[n].quantity

\* C21: in every cart state getTotal() returns the sum over the cart lines of
\* price times quantity (0 for the empty cart), and the call changes neither
\* the cart in memory nor the persisted cart.
C21_GetTotalIsSumAndPure ==
    [][(lastCall'.op = "getTotal" /\ CallGetTotal)
       => (/\ ret' = Some(SumOfLines(cartItems, Len(cartItems)))
           /\ (cartItems = <<>> => ret' = Some(0))
           /\ cartItems' = cartItems
           /\ localStorage' = localStorage)]_vars

C21_Witness ==
    /\ lastCall.op = "getTotal"
    /\ Len(cartItems) = 2
    /\ cartItems[1].price = 150 /\ cartItems[1].quantity = 2
    /\ cartItems[2].price = 50 /\ cartItems[2].quantity = 1
    /\ ret = Some(350)

\* C22: for every cart state, id and n <= 0, updateQuantity(id, n) leaves the
\* cart, in memory and as a reload would read it from storage, exactly as
\* removeItem(id) would; for n > 0 and an id in the cart it sets that line's
\* quantity to exactly n and changes no other line.
C22_UpdateQuantitySetsOrRemoves ==
    [][\A n \in Quantities :
         (lastCall'.op = "updateQuantity" /\ CallUpdateQuantity(lastCall'.id, n))
         => LET id == lastCall'.id
                removed == removeCartItem(cartItems, id)
            IN  /\ n <= 0 =>
                     /\ cartItems' = removed
                     /\ loadFromStorage(localStorage')
                            = loadFromStorage(setItem(localStorage, "cart", removed))
                /\ (n > 0 /\ id \in IdsOf(cartItems)) =>
                     /\ Len(cartItems') = Len(cartItems)
                     /\ \A i \in 1..Len(cartItems) :
                          IF cartItems[i].id = id
                          THEN /\ cartItems'[i].quantity = n
                               /\ [cartItems'[i] EXCEPT !.quantity = 0]
                                      = [cartItems[i] EXCEPT !.quantity = 0]
                          ELSE cartItems'[i] = cartItems[i]
                     /\ loadFromStorage(localStorage') = cartItems']_vars

C22_Witness ==
    /\ lastCall.op = "updateQuantity"
    /\ Len(cartItems) = 2
    /\ cartItems[1].id = lastCall.id
    /\ cartItems[1].quantity = MaxQty + 1
    /\ cartItems[2].quantity = 1
    /\ loadFromStorage(localStorage) = cartItems

(***************************************************************************)
(* Session.                                                                *)
(***************************************************************************)
Roster == {adminUser, testStudent}

\* C23: login(email, password) returns true exactly when the email is that of
\* a roster user and the password is 'password'; the session, in memory and
\* persisted, is then that user.  In every other case it returns false and
\* leaves the session, in memory and persisted, unchanged.
C23_LoginExactlyRosterAndPassword ==
    [][(lastCall'.op = "login" /\ CallLogin(lastCall'.s, lastCall'.t))
       => LET email == lastCall'.s
              password == lastCall'.t
          IN  IF (\E u \in Roster : u.email = email) /\ password = "password"
              THEN /\ ret' = "true"
                   /\ \E u \in Roster : /\ u.email = email
                                        /\ currentUser' = Some(u)
                                        /\ localStorage'.currentUser = JsonStringify(u)
              ELSE /\ ret' = "false"
                   /\ currentUser' = currentUser
                   /\ localStorage'.currentUser = localStorage.currentUser]_vars

C23_Witness ==
    /\ lastCall = Call("login", 0, "student@sibsiu.ru", "password")
    /\ ret = "true"
    /\ currentUser = Some(testStudent)
    /\ loadCurrentUser(localStorage) = Some(testStudent)
    /\ adminBtnShown

\* C24: the session survives reloads: a page load leaves getCurrentUser() the
\* user who was signed in when it happened, which is no user at all after a
\* logout and before the first successful login; the persisted session is the
\* in-memory one at every moment.
C24_SessionSurvivesReload ==
    /\ currentUser = None
    /\ [](loadCurrentUser(localStorage) = currentUser)
    /\ [](lastCall.op = "logout" => currentUser = None)
    /\ [][(lastCall'.op = "loadMenu" /\ \E response \in FetchOutcomes : LoadPage(response))
          => currentUser' = currentUser]_vars
    /\ [][currentUser' # currentUser
          => (lastCall'.op \in {"login", "logout"} /\ lastCall' # lastCall)]_vars

C24_Witness ==
    /\ lastCall.op = "loadMenu"
    /\ currentUser = Some(adminUser)
    /\ loadCurrentUser(localStorage) = Some(adminUser)

(***************************************************************************)
(* Checkout failures.                                                      *)
(***************************************************************************)
CatchRan ==
    /\ lastCall'.op = "processOrder.catch"
    /\ \E t \in OrderTimes : ProcessOrderError(t, lastCall'.s)

\* C25: when an error is raised at any step inside processOrder, the call
\* still returns and the cart, in memory and persisted, holds the same lines
\* with the same quantities as before the call.
C25_ErrorLeavesCart ==
    [][CatchRan => (/\ cartItems' = cartItems
                    /\ localStorage'.cart = localStorage.cart)]_vars

\* C29: whenever the catch branch of processOrder runs, the order collection,
\* in memory and persisted, holds no order created by that attempt.
C29_CheckoutAllOrNothing ==
    [][CatchRan => (/\ orders' = orders
                    /\ localStorage'.orders = localStorage.orders)]_vars

(***************************************************************************)
(* Dish forms.                                                             *)
(***************************************************************************)
BadForm(f) ==
    \/ f.name = "" \/ f.price = <<>> \/ f.description = ""
    \/ f.category = "" \/ f.image = ""
    \/ parseInt(f.price)[1] <= 0

\* C26: no submission of the add-dish or the edit-dish form with a price <= 0
\* or a missing required field changes the active list or the archive, and
\* every dish in the two lists has a price > 0.
C26_FormsKeepPricesPositive ==
    /\ [][\A f \in AddForms \cup EditForms :
            (/\ BadForm(f)
             /\ \/ lastCall'.op = "addForm" /\ AddFormSubmit(f)
                \/ lastCall'.op = "editForm" /\ EditFormSubmit(lastCall'.id, f))
            => (menuItems' = menuItems /\ allDishes' = allDishes)]_vars
    /\ [](/\ \A i \in 1..Len(menuItems) : menuItems[i].price > 0
          /\ \A i \in 1..Len(allDishes) : allDishes[i].price > 0)

(***************************************************************************)
(* Confirmation requests.                                                  *)
(***************************************************************************)
PageNow ==
    [ls |-> localStorage, list |-> adminOrdersList,
     modalId |-> activeModalId, cb |-> currentCallback]

\* C27: every confirmation request is resolved exactly once: a callback that
\* was handed to the modal manager stays installed until closeModal invokes
\* it, also when a second request arrives while the modal is open, and after
\* closeModal has invoked it it is gone.
C27_RequestsResolvedOnce ==
    /\ [][\A entry \in adminOrdersList, action \in StatusActions :
            StatusBtnClick(entry, action)
            => LET first == handleOrderAction(PageNow, entry.id, action,
                                              activeFilter, entry.status)
               IN  first.cb # NoCallback => currentCallback' = first.cb]_vars
    /\ [][(currentCallback # NoCallback /\ currentCallback' # currentCallback)
          => \E r \in {"true", "false"} \cup TimeInputs :
                CloseModal(r) /\ currentCallback' = NoCallback]_vars

(***************************************************************************)
(* Add-to-cart clicks.                                                     *)
(***************************************************************************)
RECURSIVE Units(_, _)
Units(items, n) == IF n = 0 THEN 0 ELSE Units(items, n - 1) + items[n].quantity

\* C30: one click on a dish's add-to-cart button is one addItem call: the
\* cart holds exactly one unit more than before, whatever the active list and
\* the archive hold.
C30_OneClickOneUnit ==
    [][\A id \in DishIds :
         AddToCartClick(id, MaxQty)
         => Units(cartItems', Len(cartItems')) = Units(cartItems, Len(cartItems)) + 1]_vars

(***************************************************************************)
(* Menu load in flight.                                                    *)
(***************************************************************************)
\* C28: the completion of loadMenu discards no catalog change made while it
\* was in flight: whether the fetch succeeded or failed, every dish that
\* addMenuItem or addExistingDish put into the active list is still in the
\* list and in its persisted snapshot, and the archive is as it was.
C28_LoadKeepsInFlightChanges ==
    [][(/\ lastCall'.op = "loadMenu"
        /\ \E response \in FetchOutcomes : LoadMenuCompletes(response))
       => /\ \A i \in 1..Len(menuItems) :
               /\ \E j \in 1..Len(menuItems') : Dish(menuItems'[j]) = Dish(menuItems[i])
               /\ \E j \in 1..Len(Snapshot(localStorage')) :
                     Snapshot(localStorage')[j] = Dish(menuItems[i])
          /\ allDishes' = allDishes]_vars

====
